---- MODULE Spec2Model ----
(***************************************************************************)
(* County Data Merger (prepare_data.py): the batch pipeline that reads the *)
(* housing, election, gun-law, population, exotic-animal and marijuana     *)
(* sources, left-joins them on the overall-housing table, derives the      *)
(* categorical fields and writes data/merged_county_data.csv.              *)
(*                                                                         *)
(* Representation.  A missing cell (NaN) is NA == <<>> and a present cell  *)
(* v is <<v>>.  A data frame is [cols |-> set of column names, rows |->    *)
(* sequence of records].  Percentages and the lean score are fixed-point   *)
(* integers in tenths (66.7 is 667).  Text that the code inspects by       *)
(* character (FIPS code cells, column headers, formatted prices) is a      *)
(* sequence of one-character strings.                                      *)
(*                                                                         *)
(* Home Locator (app.py): the dashboard script that reads the output file, *)
(* builds the sidebar filters and shows the filtered table.  A number the  *)
(* dashboard reads with a fractional part, n + f/10, is the cell <<n, f>>. *)
(***************************************************************************)
EXTENDS Integers, Sequences, FiniteSets, TLC

VARIABLES
    srcDir,           \* the directory the source files are in: "data/" or ""
    dataDir,          \* whether the directory data/ exists
    files,            \* the source files: source name -> [st, tab]
    outFile,          \* data/merged_county_data.csv: NA, or <<table>>
    runs,             \* how many times prepare_data has been started
    pc,               \* position of the running prepare_data
    err,              \* the exception that ended the run ("" when none)
    data_path,
    housing_general,
    housing_4br,
    housing_5br,
    housing_clean,
    elec_clean,
    gun_laws,
    population,
    exotic_animals,
    marijuana,
    merged,
    df,               \* app.py: the table load_data returned (cached), or None
    widgets,          \* app.py: what the user has chosen in the sidebar
    filtered_df,      \* app.py: the table the dashboard shows
    app               \* app.py: "start", "shown" or "failed"

appvars == <<df, widgets, filtered_df, app>>

fsvars == <<srcDir, dataDir, files, outFile>>
locals == <<data_path, housing_general, housing_4br, housing_5br, housing_clean,
            elec_clean, gun_laws, population, exotic_animals, marijuana, merged>>
vars == <<srcDir, dataDir, files, outFile, runs, pc, err, data_path,
          housing_general, housing_4br, housing_5br, housing_clean, elec_clean,
          gun_laws, population, exotic_animals, marijuana, merged,
          df, widgets, filtered_df, app>>

----------------------------------------------------------------------------
(* Cells and frames *)

NA == <<>>

Some(v) == <<v>>

\* pd.isna / pd.notna
IsNA(x) == x = NA

\* Python None, and a local not assigned yet
None == [none |-> TRUE]

Frame(cols, rows) == [cols |-> cols, rows |-> rows]

Range(s) == {s[i] : i \in DOMAIN s}

RECURSIVE Flatten(_)
Flatten(ss) == IF ss = <<>> THEN <<>> ELSE Head(ss) \o Flatten(Tail(ss))

RECURSIVE SumSet(_, _)
SumSet(S, field) ==
    IF S = {} THEN 0
    ELSE LET r == CHOOSE x \in S : TRUE
         IN r[field] + SumSet(S \ {r}, field)

----------------------------------------------------------------------------
(* Bounds of the model *)

\* at most this many source files differ from the clean baseline data set
MaxDeviations == 2

\* prepare_data is started at most this many times on one file system
MaxRuns == 2

\* a party's votes in one election record are 100 * (0..MaxVotes)
MaxVotes == 15

\* lean scores drawn for the categorisation: -MaxScore..MaxScore tenths
MaxScore == 260

MaxCols == 3

----------------------------------------------------------------------------
(* Text: read_csv's integer inference, astype(str), str.zfill, astype(float) *)

DigitChars == <<"0", "1", "2", "3", "4", "5", "6", "7", "8", "9">>

DigitVal(c) == (CHOOSE i \in DOMAIN DigitChars : DigitChars[i] = c) - 1

\* the number a run of decimal digits denotes (read_csv infers int64 for an
\* all-digit column, so "01" is read as 1; astype(float) of a digit string)
RECURSIVE ParseInt(_)
ParseInt(s) ==
    IF s = <<>> THEN 0
    ELSE 10 * ParseInt(SubSeq(s, 1, Len(s) - 1)) + DigitVal(s[Len(s)])

\* astype(str) of a non-negative integer: decimal digits, no leading zeros
RECURSIVE IntToStr(_)
IntToStr(n) ==
    IF n < 10 THEN <<DigitChars[n + 1]>>
    ELSE IntToStr(n \div 10) \o <<DigitChars[(n % 10) + 1]>>

\* a faulty zfill: the text is left unpadded
ZFillNoPad(s, width) == s

\* str.zfill(width): pad on the left with "0" up to width, never truncate
RECURSIVE ZFill(_, _)
ZFill(s, width) == IF Len(s) >= width THEN s ELSE ZFill(<<"0">> \o s, width)

StateWidth == 2

CountyWidth == 3

\* lines 38-41: the county key of one housing row
county_fips(row) ==
    ParseInt(ZFill(IntToStr(row.StateCodeFIPS), StateWidth)
             \o ZFill(IntToStr(row.MunicipalCodeFIPS), CountyWidth))

StartsWith(s, prefix) ==
    Len(s) >= Len(prefix) /\ SubSeq(s, 1, Len(prefix)) = prefix

\* lines 43, 56, 69: the indices of the columns whose name starts with '20'
date_cols(hdr) == SelectSeq([i \in DOMAIN hdr |-> i],
                            LAMBDA i : StartsWith(hdr[i], <<"2", "0">>))

\* f"${x:,.0f}" of a non-negative whole amount: thousands separated by commas
RECURSIVE Commas(_)
Commas(s) ==
    IF Len(s) <= 3 THEN s
    ELSE Commas(SubSeq(s, 1, Len(s) - 3)) \o <<",">> \o SubSeq(s, Len(s) - 2, Len(s))

\* lines 153-165: the display string of one home value
Formatted(x) ==
    IF IsNA(x) THEN <<"N", "/", "A">> ELSE <<"$">> \o Commas(IntToStr(x[1]))

----------------------------------------------------------------------------
(* Joins *)

\* one row restricted to the columns cs
Project(row, cs) == [c \in cs |-> row[c]]

\* a faulty join (how='inner'): left rows without a match are lost
InnerMerge(left, right, key, cs) ==
    Frame(left.cols \cup cs,
          Flatten([i \in DOMAIN left.rows |->
              LET l == left.rows[i]
                  m == SelectSeq(right.rows, LAMBDA r : r[key] = l[key])
              IN [j \in DOMAIN m |-> l @@ Project(m[j], cs)]]))

\* left.merge(right[[key] + cs], on=key, how='left'): every left row is kept,
\* once per right row with the same key, or once with cs missing
LeftMerge(left, right, key, cs) ==
    Frame(left.cols \cup cs,
          Flatten([i \in DOMAIN left.rows |->
              LET l == left.rows[i]
                  m == SelectSeq(right.rows, LAMBDA r : r[key] = l[key])
              IN IF m = <<>> THEN <<l @@ [c \in cs |-> NA]>>
                 ELSE [j \in DOMAIN m |-> l @@ Project(m[j], cs)]]))

\* a faulty filter: nothing is dropped
KeepAll(frame, col) == frame

\* line 150: merged.dropna(subset=[col])
DropNA(frame, col) ==
    [frame EXCEPT !.rows = SelectSeq(@, LAMBDA r : ~IsNA(r[col]))]

\* frame[name] = values, a series aligned with the rows of the frame
WithColumn(frame, name, values) ==
    Frame(frame.cols \cup {name},
          [i \in DOMAIN frame.rows |-> frame.rows[i] @@ (name :> values[i])])

----------------------------------------------------------------------------
(* Election aggregation, lines 79-100 *)

TargetYear == 2024

\* line 80: elections[elections['year'] == 2024]
elec_2024(elections) == {r \in elections : r.year = TargetYear}

\* the index of the pivot: one group per (state_po, county_name, county_fips)
GroupOf(r) == [state_po |-> r.state_po, county_name |-> r.county_name,
               county_fips |-> r.county_fips]

\* the strings of the index columns, in Python's string order
StringOrder == <<"ALAMEDA", "Alameda", "CA", "DE", "HARRIS", "KENT", "TX">>

StrRank(s) == CHOOSE i \in DOMAIN StringOrder : StringOrder[i] = s

\* pivot_table sorts its rows by the index tuple
GroupBefore(a, b) ==
    \/ StrRank(a.state_po) < StrRank(b.state_po)
    \/ /\ a.state_po = b.state_po
       /\ \/ StrRank(a.county_name) < StrRank(b.county_name)
          \/ a.county_name = b.county_name /\ a.county_fips < b.county_fips

RECURSIVE SortGroups(_)
SortGroups(G) ==
    IF G = {} THEN <<>>
    ELSE LET g == CHOOSE x \in G : \A y \in G \ {x} : GroupBefore(x, y)
         IN <<g>> \o SortGroups(G \ {g})

\* lines 82-93: the votes in the pivot's cell (group g, party): the sum of the
\* group's records of that party, fill_value 0 where the group has none, and
\* 0 throughout when the party is no column of the pivot at all
PartyVotes(e, g, party) ==
    SumSet({r \in e : GroupOf(r) = g /\ r.party = party}, "candidatevotes")

\* Series.round(1) of num/den*100, in tenths: the nearest tenth, ties to even
RoundTenths(num, den) ==
    LET q == (1000 * num) \div den
        rem == (1000 * num) % den
    IN IF 2 * rem < den THEN q
       ELSE IF 2 * rem > den THEN q + 1
       ELSE IF q % 2 = 0 THEN q ELSE q + 1

\* a faulty share: 0/0 taken as 0
PctZeroAsZero(votes, total_votes) ==
    IF total_votes = 0 THEN Some(0) ELSE Some(RoundTenths(votes, total_votes))

\* lines 96-97: (votes / total_votes * 100).round(1); 0/0 is NaN in pandas
Pct(votes, total_votes) ==
    IF total_votes = 0 THEN NA ELSE Some(RoundTenths(votes, total_votes))

\* line 98: (dem_pct - rep_pct).round(1); exact in tenths, NaN propagates
LeanScore(dem_pct, rep_pct) ==
    IF IsNA(dem_pct) \/ IsNA(rep_pct) THEN NA ELSE Some(dem_pct[1] - rep_pct[1])

\* lines 80-100: one row per pivot group
ElecRow(e, g) ==
    LET dem == PartyVotes(e, g, "DEMOCRAT")
        rep == PartyVotes(e, g, "REPUBLICAN")
        total_votes == dem + rep
        dem_pct == Pct(dem, total_votes)
        rep_pct == Pct(rep, total_votes)
    IN [county_fips |-> g.county_fips, dem_pct |-> dem_pct, rep_pct |-> rep_pct,
        lean_score |-> LeanScore(dem_pct, rep_pct)]

ElecClean(elections) ==
    LET e == elec_2024(elections)
        groups == SortGroups({GroupOf(r) : r \in e})
    IN Frame({"county_fips", "dem_pct", "rep_pct", "lean_score"},
             [i \in DOMAIN groups |-> ElecRow(e, groups[i])])

----------------------------------------------------------------------------
(* Derived categories, lines 167-199.  Scores are in tenths. *)

\* faulty thresholds: >= in place of >
categorize_lean_inclusive(score) ==
    IF IsNA(score) THEN "Unknown"
    ELSE IF score[1] >= 200 THEN "Strong Democrat"
    ELSE IF score[1] >= 50 THEN "Lean Democrat"
    ELSE IF score[1] >= -50 THEN "Swing"
    ELSE IF score[1] >= -200 THEN "Lean Republican"
    ELSE "Strong Republican"

\* lines 168-180
categorize_lean(score) ==
    IF IsNA(score) THEN "Unknown"
    ELSE IF score[1] > 200 THEN "Strong Democrat"
    ELSE IF score[1] > 50 THEN "Lean Democrat"
    ELSE IF score[1] > -50 THEN "Swing"
    ELSE IF score[1] > -200 THEN "Lean Republican"
    ELSE "Strong Republican"

\* faulty grade sets: the + and - grades left out
categorize_gun_law_plain(grade) ==
    IF IsNA(grade) THEN "Unknown"
    ELSE IF grade[1] \in {"A"} THEN "Strong"
    ELSE IF grade[1] \in {"B"} THEN "Moderate"
    ELSE IF grade[1] \in {"C"} THEN "Weak"
    ELSE IF grade[1] \in {"D"} THEN "Very Weak"
    ELSE "Minimal"

\* lines 185-197
categorize_gun_law(grade) ==
    IF IsNA(grade) THEN "Unknown"
    ELSE IF grade[1] \in {"A+", "A", "A-"} THEN "Strong"
    ELSE IF grade[1] \in {"B+", "B", "B-"} THEN "Moderate"
    ELSE IF grade[1] \in {"C+", "C", "C-"} THEN "Weak"
    ELSE IF grade[1] \in {"D+", "D", "D-"} THEN "Very Weak"
    ELSE "Minimal"

----------------------------------------------------------------------------
(* The clean baseline data set: two counties, Alameda CA (06001) and Kent  *)
(* DE (10001), present in every source.                                    *)

Ok(tab) == [st |-> "ok", tab |-> tab]

Absent == [st |-> "absent", tab |-> None]

Unparsable == [st |-> "unparsable", tab |-> None]

\* the frame without one of its columns
Without(tab, col) == [tab EXCEPT !.cols = @ \ {col}]

HousingCols == {"RegionName", "StateName", "State", "StateCodeFIPS", "MunicipalCodeFIPS"}

Col2024_11 == <<"2", "0", "2", "4", "-", "1", "1", "-", "3", "0">>

Col2024_12 == <<"2", "0", "2", "4", "-", "1", "2", "-", "3", "1">>

HousingRow(state, county, name, st, vals) ==
    [StateCodeFIPS |-> state, MunicipalCodeFIPS |-> county, RegionName |-> name,
     StateName |-> st, State |-> st, vals |-> vals]

AlamedaHousing(v) ==
    HousingRow(<<"6">>, <<"1">>, "Alameda County", "CA", <<Some(1190000), v>>)

KentHousing(v) ==
    HousingRow(<<"1", "0">>, <<"1">>, "Kent County", "DE", <<Some(340000), v>>)

HousingTab(rows) == [cols |-> HousingCols, hdr |-> <<Col2024_11, Col2024_12>>, rows |-> rows]

BaseHousing == HousingTab(<<AlamedaHousing(Some(1200000)), KentHousing(Some(350000))>>)

BaseH4 == HousingTab(<<AlamedaHousing(Some(1500000)), KentHousing(Some(450000))>>)

BaseH5 == HousingTab(<<AlamedaHousing(Some(1900000)), KentHousing(Some(560000))>>)

ElectionCols == {"year", "state_po", "county_name", "county_fips", "party",
                 "candidatevotes", "mode"}

Vote(year, po, name, fips, party, votes) ==
    [year |-> year, state_po |-> po, county_name |-> name, county_fips |-> fips,
     party |-> party, candidatevotes |-> votes, mode |-> "TOTAL"]

KentVotes == {Vote(2024, "DE", "KENT", 10001, "DEMOCRAT", 400),
              Vote(2024, "DE", "KENT", 10001, "REPUBLICAN", 600),
              Vote(2020, "DE", "KENT", 10001, "DEMOCRAT", 900)}

ElectionTab(rows) == [cols |-> ElectionCols, rows |-> rows]

BaseElections ==
    ElectionTab(KentVotes \cup
                {Vote(2024, "CA", "ALAMEDA", 6001, "DEMOCRAT", 600),
                 Vote(2024, "CA", "ALAMEDA", 6001, "REPUBLICAN", 300),
                 Vote(2024, "CA", "ALAMEDA", 6001, "OTHER", 100),
                 Vote(2020, "CA", "ALAMEDA", 6001, "REPUBLICAN", 700)})

GunCols == {"state_code", "gun_law_grade", "gun_death_rate"}

GunRow(st, grade, rate) ==
    [state_code |-> st, gun_law_grade |-> grade, gun_death_rate |-> rate]

GunTab(rows) == [cols |-> GunCols, rows |-> rows]

BaseGunLaws == GunTab(<<GunRow("CA", Some("A"), Some(80)), GunRow("DE", Some("B+"), Some(120))>>)

PopulationCols == {"county_fips", "population"}

PopRow(fips, n) == [county_fips |-> fips, population |-> n]

PopTab(rows) == [cols |-> PopulationCols, rows |-> rows]

BasePopulation == PopTab(<<PopRow(6001, Some(1600000)), PopRow(10001, Some(180000))>>)

ExoticCols == {"exotic_animal_rating", "allows_primates", "allows_big_cats", "allows_reptiles"}

ExoticRow(st, rating, primates, cats, reptiles) ==
    [state_code |-> st, exotic_animal_rating |-> Some(rating),
     allows_primates |-> Some(primates), allows_big_cats |-> Some(cats),
     allows_reptiles |-> Some(reptiles)]

ExoticTab(rows) == [cols |-> ExoticCols \cup {"state_code"}, rows |-> rows]

BaseExotic == ExoticTab(<<ExoticRow("CA", "Strict", "No", "No", "No"),
                          ExoticRow("DE", "Moderate", "Limited", "No", "Yes")>>)

MarijuanaCols == {"marijuana_status", "recreational_legal", "medical_legal",
                  "permissiveness_score"}

MarijuanaRow(st, status, rec, med, score) ==
    [state_code |-> st, marijuana_status |-> Some(status),
     recreational_legal |-> Some(rec), medical_legal |-> Some(med),
     permissiveness_score |-> Some(score)]

MarijuanaTab(rows) == [cols |-> MarijuanaCols \cup {"state_code"}, rows |-> rows]

BaseMarijuana == MarijuanaTab(<<MarijuanaRow("CA", "Fully Legal", "Yes", "Yes", 5),
                                MarijuanaRow("DE", "Medical Only", "No", "Yes", 3)>>)

Baseline ==
    [housing |-> Ok(BaseHousing), h4 |-> Ok(BaseH4), h5 |-> Ok(BaseH5),
     elections |-> Ok(BaseElections), gun_laws |-> Ok(BaseGunLaws),
     population |-> Ok(BasePopulation), exotic |-> Ok(BaseExotic),
     marijuana |-> Ok(BaseMarijuana)]

----------------------------------------------------------------------------
(* The ways one source file can differ from the baseline: absent,          *)
(* unparsable, lacking a column the code selects, and readable tables in   *)
(* which a county or state has no row, a missing cell, or several rows.    *)

Variants ==
    [housing |->
        <<Absent, Unparsable,
          Ok(Without(BaseHousing, "StateCodeFIPS")),
          Ok([BaseHousing EXCEPT !.hdr = <<<<"1", "9", "9", "9", "-", "1", "2">>,
                                           <<"1", "9", "9", "9", "-", "1", "1">>>>]),
          Ok(HousingTab(<<AlamedaHousing(Some(1200000)), KentHousing(NA)>>)),
          Ok(HousingTab(<<HousingRow(<<"0", "6">>, <<"0", "0", "1">>,
                                     "Alameda County", "CA",
                                     <<Some(1190000), Some(1200000)>>),
                          KentHousing(Some(350000))>>))>>,
     h4 |->
        <<Absent, Unparsable,
          Ok(Without(BaseH4, "MunicipalCodeFIPS")),
          Ok(HousingTab(<<AlamedaHousing(Some(1500000))>>)),
          Ok(HousingTab(<<AlamedaHousing(NA), KentHousing(Some(450000))>>)),
          Ok(HousingTab(<<AlamedaHousing(Some(1500000)), AlamedaHousing(Some(1510000)),
                          KentHousing(Some(450000))>>))>>,
     h5 |->
        <<Absent, Unparsable,
          Ok(Without(BaseH5, "StateCodeFIPS")),
          Ok(HousingTab(<<KentHousing(Some(560000))>>)),
          Ok(HousingTab(<<AlamedaHousing(Some(1900000)), KentHousing(Some(560000)),
                          KentHousing(Some(570000))>>))>>,
     elections |->
        <<Absent, Unparsable,
          Ok(Without(BaseElections, "party")),
          Ok(ElectionTab(KentVotes \cup
                {Vote(2024, "CA", "ALAMEDA", 6001, "DEMOCRAT", 600),
                 Vote(2024, "CA", "Alameda", 6001, "REPUBLICAN", 300)})),
          Ok(ElectionTab({Vote(2024, "TX", "HARRIS", 48201, "DEMOCRAT", 500),
                          Vote(2024, "TX", "HARRIS", 48201, "REPUBLICAN", 500)})),
          Ok(ElectionTab(KentVotes \cup
                {Vote(2024, "CA", "ALAMEDA", 6001, "DEMOCRAT", 0),
                 Vote(2024, "CA", "ALAMEDA", 6001, "REPUBLICAN", 0),
                 Vote(2024, "CA", "ALAMEDA", 6001, "OTHER", 100)}))>>,
     gun_laws |->
        <<Absent, Unparsable,
          Ok(Without(BaseGunLaws, "gun_law_grade")),
          Ok(GunTab(<<GunRow("CA", Some("A"), Some(80))>>)),
          Ok(GunTab(<<GunRow("CA", NA, Some(80)), GunRow("DE", Some("F"), NA)>>)),
          Ok(GunTab(<<GunRow("CA", Some("A"), Some(80)), GunRow("CA", Some("A-"), Some(80)),
                      GunRow("DE", Some("B+"), Some(120))>>))>>,
     population |->
        <<Absent, Unparsable,
          Ok(Without(BasePopulation, "population")),
          Ok(PopTab(<<PopRow(10001, Some(180000)), PopRow(48201, Some(4700000))>>)),
          Ok(PopTab(<<PopRow(6001, NA), PopRow(10001, Some(180000))>>)),
          Ok(PopTab(<<PopRow(6001, Some(1600000)), PopRow(6001, Some(1650000)),
                      PopRow(10001, Some(180000))>>))>>,
     exotic |->
        <<Absent, Unparsable,
          Ok(Without(BaseExotic, "allows_reptiles")),
          Ok(ExoticTab(<<ExoticRow("DE", "Moderate", "Limited", "No", "Yes")>>)),
          Ok(ExoticTab(<<ExoticRow("CA", "Strict", "No", "No", "No"),
                         ExoticRow("CA", "Permissive", "Yes", "Yes", "Yes"),
                         ExoticRow("DE", "Moderate", "Limited", "No", "Yes")>>))>>,
     marijuana |->
        <<Absent, Unparsable,
          Ok(Without(BaseMarijuana, "marijuana_status")),
          Ok(MarijuanaTab(<<MarijuanaRow("CA", "Fully Legal", "Yes", "Yes", 5)>>)),
          Ok(MarijuanaTab(<<MarijuanaRow("CA", "Fully Legal", "Yes", "Yes", 5),
                            MarijuanaRow("DE", "Medical Only", "No", "Yes", 3),
                            MarijuanaRow("DE", "Illegal", "No", "No", 0)>>))>>]

\* the directory layouts: where the sources are, whether data/ exists, and
\* whether it holds the output of an earlier run
StaleOutput == Frame({"county_fips", "median_home_value_all"},
                     <<[county_fips |-> 6001, median_home_value_all |-> Some(990000)]>>)

BaseLayout == [srcDir |-> "data/", dataDir |-> TRUE, outFile |-> NA]

LayoutVariants ==
    <<[srcDir |-> "data/", dataDir |-> TRUE, outFile |-> Some(StaleOutput)],
      [srcDir |-> "", dataDir |-> FALSE, outFile |-> NA],
      [srcDir |-> "", dataDir |-> TRUE, outFile |-> Some(StaleOutput)]>>

----------------------------------------------------------------------------
(* Reading the source files *)

Sources == {"housing", "h4", "h5", "elections", "gun_laws", "population",
            "exotic", "marijuana"}

HousingSources == {"housing", "h4", "h5"}

\* the file named for source s under the directory path
FileAt(path, s) ==
    IF path = srcDir THEN files[s] ELSE [st |-> "absent", tab |-> None]

\* read_csv of a housing file: the code columns are inferred as integers
ParseHousing(tab) ==
    [tab EXCEPT !.rows = [i \in DOMAIN tab.rows |->
        [tab.rows[i] EXCEPT !.StateCodeFIPS = ParseInt(@),
                            !.MunicipalCodeFIPS = ParseInt(@)]]]

\* the exception pd.read_csv raises on a file it cannot return
ReadError(f) == IF f.st = "absent" THEN "FileNotFoundError" ELSE "ParserError"

\* a frame with the columns of source s and no rows
EmptyFrame(s) ==
    [Baseline[s].tab EXCEPT !.rows = IF s = "elections" THEN {} ELSE <<>>]

\* a faulty read: a file that cannot be read is taken as a frame without rows
ReadCsvOrEmpty(path, s) ==
    LET f == FileAt(path, s)
    IN IF f.st = "ok"
       THEN [ok |-> TRUE, frame |-> IF s \in HousingSources THEN ParseHousing(f.tab) ELSE f.tab]
       ELSE [ok |-> TRUE, frame |-> EmptyFrame(s)]

\* pd.read_csv(f'{data_path}<file>'): the frame, or the exception raised
ReadCsv(path, s) ==
    LET f == FileAt(path, s)
    IN IF f.st = "ok"
       THEN [ok |-> TRUE, frame |-> IF s \in HousingSources THEN ParseHousing(f.tab) ELSE f.tab]
       ELSE [ok |-> FALSE, error |-> ReadError(f)]

\* lines 23-35, 110-123: try: pd.read_csv(...) except: None
TryRead(path, s) ==
    IF ReadCsv(path, s).ok THEN ReadCsv(path, s).frame ELSE None

----------------------------------------------------------------------------
(* prepare_data, lines 9-229, step by step *)

Fail(error) == pc' = "failed" /\ err' = error

\* lines 12-35: choose data_path, read the three housing files
LoadHousing ==
    /\ pc = "start"
    /\ LET path == IF dataDir THEN "data/" ELSE ""
           general == ReadCsv(path, "housing")
       IN /\ data_path' = path
          /\ IF general.ok
             THEN /\ housing_general' = general.frame
                  /\ housing_4br' = TryRead(path, "h4")
                  /\ housing_5br' = TryRead(path, "h5")
                  /\ pc' = "process_housing"
                  /\ err' = err
             ELSE /\ Fail(general.error)
                  /\ UNCHANGED <<housing_general, housing_4br, housing_5br>>
    /\ UNCHANGED <<fsvars, runs, housing_clean, elec_clean, gun_laws, population,
                   exotic_animals, marijuana, merged>>
    /\ UNCHANGED appvars

\* the exception raised while keying a housing frame and taking its current
\* value: a missing code column, or no column starting with '20'
HousingError(h) ==
    IF ~({"StateCodeFIPS", "MunicipalCodeFIPS"} \subseteq h.cols) THEN "KeyError"
    ELSE IF date_cols(h.hdr) = <<>> THEN "IndexError"
    ELSE ""

\* lines 43-45, 56-57, 69-70: date_cols[-1], the column taken as current value
LastDateCol(hdr) == date_cols(hdr)[Len(date_cols(hdr))]

\* lines 38-48: housing_clean before the bedroom joins
HousingClean(h) ==
    Frame({"county_fips", "county_name", "state_name", "state_code",
           "median_home_value_all"},
          [i \in DOMAIN h.rows |->
              [county_fips |-> county_fips(h.rows[i]),
               county_name |-> h.rows[i].RegionName,
               state_name |-> h.rows[i].StateName,
               state_code |-> h.rows[i].State,
               median_home_value_all |-> h.rows[i].vals[LastDateCol(h.hdr)]]])

\* lines 52-57, 65-70: a bedroom frame keyed, with its current value as col
BedroomValues(h, col) ==
    Frame({"county_fips", col},
          [i \in DOMAIN h.rows |->
              ("county_fips" :> county_fips(h.rows[i]))
              @@ (col :> h.rows[i].vals[LastDateCol(h.hdr)])])

\* lines 50-61, 63-74: if h is not None, left-join its current value
AddBedrooms(clean, h, col) ==
    IF h = None THEN clean
    ELSE LeftMerge(clean, BedroomValues(h, col), "county_fips", {col})

\* lines 37-76
ProcessHousing ==
    /\ pc = "process_housing"
    /\ LET e1 == HousingError(housing_general)
           e2 == IF e1 # "" THEN e1
                 ELSE IF ~({"RegionName", "StateName", "State"} \subseteq housing_general.cols)
                 THEN "KeyError" ELSE ""
           e3 == IF e2 # "" \/ housing_4br = None THEN e2 ELSE HousingError(housing_4br)
           e4 == IF e3 # "" \/ housing_5br = None THEN e3 ELSE HousingError(housing_5br)
       IN IF e4 # ""
          THEN Fail(e4) /\ UNCHANGED housing_clean
          ELSE /\ housing_clean' =
                     AddBedrooms(AddBedrooms(HousingClean(housing_general),
                                             housing_4br, "median_home_value_4br"),
                                 housing_5br, "median_home_value_5br")
               /\ pc' = "elections"
               /\ err' = err
    /\ UNCHANGED <<fsvars, runs, data_path, housing_general, housing_4br, housing_5br,
                   elec_clean, gun_laws, population, exotic_animals, marijuana, merged>>
    /\ UNCHANGED appvars

\* lines 78-101
ProcessElections ==
    /\ pc = "elections"
    /\ LET elections == ReadCsv(data_path, "elections")
       IN IF ~elections.ok
          THEN Fail(elections.error) /\ UNCHANGED elec_clean
          ELSE IF ~({"year", "state_po", "county_name", "county_fips", "party",
                     "candidatevotes"} \subseteq elections.frame.cols)
          THEN Fail("KeyError") /\ UNCHANGED elec_clean
          ELSE /\ elec_clean' = ElecClean(elections.frame.rows)
               /\ pc' = "load_state"
               /\ err' = err
    /\ UNCHANGED <<fsvars, runs, data_path, housing_general, housing_4br, housing_5br,
                   housing_clean, gun_laws, population, exotic_animals, marijuana, merged>>
    /\ UNCHANGED appvars

\* lines 103-123
LoadStateSources ==
    /\ pc = "load_state"
    /\ LET guns == ReadCsv(data_path, "gun_laws")
           pop == ReadCsv(data_path, "population")
       IN IF ~guns.ok
          THEN Fail(guns.error)
               /\ UNCHANGED <<gun_laws, population, exotic_animals, marijuana>>
          ELSE IF ~pop.ok
          THEN /\ Fail(pop.error)
               /\ gun_laws' = guns.frame
               /\ UNCHANGED <<population, exotic_animals, marijuana>>
          ELSE /\ gun_laws' = guns.frame
               /\ population' = pop.frame
               /\ exotic_animals' = TryRead(data_path, "exotic")
               /\ marijuana' = TryRead(data_path, "marijuana")
               /\ pc' = "merge"
               /\ err' = err
    /\ UNCHANGED <<fsvars, runs, data_path, housing_general, housing_4br, housing_5br,
                   housing_clean, elec_clean, merged>>
    /\ UNCHANGED appvars

\* lines 136-147: if right is not None, left-join its columns on state_code
AddStateSource(left, right, cs) ==
    IF right = None THEN left ELSE LeftMerge(left, right, "state_code", cs)

\* selecting right[['state_code'] + cs] raises KeyError when a column is not there
SelectError(right, cs) ==
    IF right # None /\ ~((cs \cup {"state_code"}) \subseteq right.cols)
    THEN "KeyError" ELSE ""

\* lines 125-147
MergeAll ==
    /\ pc = "merge"
    /\ LET e == IF SelectError(gun_laws, GunCols) # "" THEN "KeyError"
                ELSE IF ~(PopulationCols \subseteq population.cols) THEN "KeyError"
                ELSE IF SelectError(exotic_animals, ExoticCols) # "" THEN "KeyError"
                ELSE SelectError(marijuana, MarijuanaCols)
           m1 == LeftMerge(housing_clean, elec_clean, "county_fips",
                           {"dem_pct", "rep_pct", "lean_score"})
           m2 == LeftMerge(m1, gun_laws, "state_code",
                           {"gun_law_grade", "gun_death_rate"})
           m3 == LeftMerge(m2, population, "county_fips", {"population"})
           m4 == AddStateSource(m3, exotic_animals, ExoticCols)
           m5 == AddStateSource(m4, marijuana, MarijuanaCols)
       IN IF e # ""
          THEN Fail(e) /\ UNCHANGED merged
          ELSE merged' = m5 /\ pc' = "derive" /\ err' = err
    /\ UNCHANGED <<fsvars, runs, data_path, housing_general, housing_4br, housing_5br,
                   housing_clean, elec_clean, gun_laws, population, exotic_animals,
                   marijuana>>
    /\ UNCHANGED appvars

\* lines 157-165: the display string of an optional home value column
AddFormatted(frame, col, name) ==
    IF col \in frame.cols
    THEN WithColumn(frame, name,
                    [i \in DOMAIN frame.rows |-> Formatted(frame.rows[i][col])])
    ELSE frame

\* lines 149-199
Derived(frame) ==
    LET m0 == DropNA(frame, "median_home_value_all")
        m1 == WithColumn(m0, "median_home_value_all_formatted",
                         [i \in DOMAIN m0.rows |-> Formatted(m0.rows[i].median_home_value_all)])
        m2 == AddFormatted(m1, "median_home_value_4br", "median_home_value_4br_formatted")
        m3 == AddFormatted(m2, "median_home_value_5br", "median_home_value_5br_formatted")
        m4 == WithColumn(m3, "political_lean",
                         [i \in DOMAIN m3.rows |-> categorize_lean(m3.rows[i].lean_score)])
    IN WithColumn(m4, "gun_law_strength",
                  [i \in DOMAIN m4.rows |-> categorize_gun_law(m4.rows[i].gun_law_grade)])

DeriveFields ==
    /\ pc = "derive"
    /\ merged' = Derived(merged)
    /\ pc' = "save"
    /\ UNCHANGED <<fsvars, runs, err, data_path, housing_general, housing_4br,
                   housing_5br, housing_clean, elec_clean, gun_laws, population,
                   exotic_animals, marijuana>>
    /\ UNCHANGED appvars

\* lines 201-207: create data/ if absent, write the output file
Save ==
    /\ pc = "save"
    /\ dataDir' = TRUE
    /\ outFile' = Some(merged)
    /\ pc' = "done"
    /\ UNCHANGED <<srcDir, files, runs, err, locals>>
    /\ UNCHANGED appvars

\* lines 231-232: the script is run again on the same file system
Rerun ==
    /\ pc \in {"done", "failed"}
    /\ runs < MaxRuns
    /\ runs' = runs + 1
    /\ pc' = "start"
    /\ err' = ""
    /\ data_path' = None
    /\ housing_general' = None
    /\ housing_4br' = None
    /\ housing_5br' = None
    /\ housing_clean' = None
    /\ elec_clean' = None
    /\ gun_laws' = None
    /\ population' = None
    /\ exotic_animals' = None
    /\ marijuana' = None
    /\ merged' = None
    /\ UNCHANGED fsvars
    /\ UNCHANGED appvars

Next ==
    \/ LoadHousing
    \/ ProcessHousing
    \/ ProcessElections
    \/ LoadStateSources
    \/ MergeAll
    \/ DeriveFields
    \/ Save
    \/ Rerun

----------------------------------------------------------------------------
(* The dashboard, app.py *)

\* a present number in tenths: <<n>> is n, <<n, f>> is n + f/10
Tenths(x) == 10 * x[1] + (IF Len(x) > 1 THEN x[2] ELSE 0)

\* int(x) of a present non-negative number: the fraction is cut off
int(x) == x[1]

\* the present cells of a column
Present(frame, col) == {frame.rows[i][col] : i \in DOMAIN frame.rows} \ {NA}

\* Series.min() and Series.max(): missing cells are skipped, NaN when none is left
SeriesMin(frame, col) ==
    IF Present(frame, col) = {} THEN NA
    ELSE CHOOSE x \in Present(frame, col) :
             \A y \in Present(frame, col) : Tenths(x) <= Tenths(y)

SeriesMax(frame, col) ==
    IF Present(frame, col) = {} THEN NA
    ELSE CHOOSE x \in Present(frame, col) :
             \A y \in Present(frame, col) : Tenths(y) <= Tenths(x)

\* series >= bound and series <= bound, bound an integer: False on a missing cell
AtLeast(x, bound) == ~IsNA(x) /\ Tenths(x) >= 10 * bound

AtMost(x, bound) == ~IsNA(x) /\ Tenths(x) <= 10 * bound

\* app.py lines 33-37
bedroom_options(d) ==
    {"All Homes"}
    \cup (IF "median_home_value_4br" \in d.cols THEN {"4 Bedrooms"} ELSE {})
    \cup (IF "median_home_value_5br" \in d.cols THEN {"5+ Bedrooms"} ELSE {})

\* app.py lines 45-53
price_col(bedroom_type) ==
    IF bedroom_type = "4 Bedrooms" THEN "median_home_value_4br"
    ELSE IF bedroom_type = "5+ Bedrooms" THEN "median_home_value_5br"
    ELSE "median_home_value_all"

\* app.py line 56
df_filtered_bedrooms(d, bedroom_type) ==
    [d EXCEPT !.rows = SelectSeq(@, LAMBDA r : ~IsNA(r[price_col(bedroom_type)]))]

\* app.py lines 71, 80
lean_categories == {"Strong Democrat", "Lean Democrat", "Swing", "Lean Republican",
                    "Strong Republican", "Unknown"}

gun_law_categories == {"Strong", "Moderate", "Weak", "Very Weak", "Minimal", "Unknown"}

\* app.py lines 89, 98: sorted(df[col].dropna().unique())
marijuana_options(d) == Present(d, "marijuana_status")

exotic_ratings(d) == Present(d, "exotic_animal_rating")

\* app.py line 125
states(d) == {d.rows[i].state_name : i \in DOMAIN d.rows}

\* the sidebar as the script first draws it
DefaultWidgets ==
    [bedroom_type |-> "All Homes", selected_leans |-> lean_categories,
     selected_states |-> {}, filter_primates |-> FALSE, filter_big_cats |-> FALSE,
     filter_reptiles |-> FALSE]

\* app.py lines 60-67, 115-121: int() of a NaN bound raises ValueError
SliderError(d, w) ==
    IF Present(df_filtered_bedrooms(d, w.bedroom_type), price_col(w.bedroom_type)) = {}
       \/ Present(d, "population") = {}
    THEN "ValueError" ELSE ""

\* app.py lines 133-159: the table shown for the sidebar state w; the price
\* and population sliders and the gun-law, marijuana and rating selections
\* are as the script sets them
Filtered(d, w) ==
    LET col == price_col(w.bedroom_type)
        beds == df_filtered_bedrooms(d, w.bedroom_type)
        price_min == int(SeriesMin(beds, col))
        price_max == int(SeriesMax(beds, col))
        pop_min == int(SeriesMin(d, "population"))
        pop_max == int(SeriesMax(d, "population"))
        f0 == SelectSeq(beds.rows, LAMBDA r :
                  /\ AtLeast(r[col], price_min)
                  /\ AtMost(r[col], price_max)
                  /\ r.political_lean \in w.selected_leans
                  /\ r.gun_law_strength \in gun_law_categories
                  /\ AtLeast(r.population, pop_min)
                  /\ AtMost(r.population, pop_max))
        f1 == IF "marijuana_status" \in d.cols
              THEN SelectSeq(f0, LAMBDA r : r.marijuana_status \in marijuana_options(d))
              ELSE f0
        exotic == "exotic_animal_rating" \in d.cols
        f2 == IF exotic
              THEN SelectSeq(f1, LAMBDA r : r.exotic_animal_rating \in exotic_ratings(d))
              ELSE f1
        f3 == IF exotic /\ w.filter_primates /\ "allows_primates" \in d.cols
              THEN SelectSeq(f2, LAMBDA r : r.allows_primates \in {Some("Yes"), Some("Limited")})
              ELSE f2
        f4 == IF exotic /\ w.filter_big_cats /\ "allows_big_cats" \in d.cols
              THEN SelectSeq(f3, LAMBDA r : r.allows_big_cats \in {Some("Yes"), Some("Limited")})
              ELSE f3
        f5 == IF exotic /\ w.filter_reptiles /\ "allows_reptiles" \in d.cols
              THEN SelectSeq(f4, LAMBDA r : r.allows_reptiles = Some("Yes"))
              ELSE f4
        f6 == IF w.selected_states # {}
              THEN SelectSeq(f5, LAMBDA r : r.state_name \in w.selected_states)
              ELSE f5
    IN [d EXCEPT !.rows = f6]

\* one run of the script from line 24 on, over the table d and the sidebar w
Show(d, w) ==
    IF SliderError(d, w) # ""
    THEN app' = "failed" /\ filtered_df' = None
    ELSE app' = "shown" /\ filtered_df' = Filtered(d, w)

\* the page is opened: load_data (lines 18-22), then the script with the
\* sidebar as first drawn
OpenPage ==
    /\ app = "start"
    /\ IF outFile = NA
       THEN app' = "failed" /\ UNCHANGED <<df, widgets, filtered_df>>
       ELSE /\ df' = outFile[1]
            /\ widgets' = DefaultWidgets
            /\ Show(outFile[1], DefaultWidgets)
    /\ UNCHANGED <<fsvars, runs, pc, err, locals>>

\* the lean the user may take out of, or put back into, the selection
ToggledLeans == {"Unknown"}

Toggle(S, x) == IF x \in S THEN S \ {x} ELSE S \cup {x}

\* the sidebar after one change by the user
Choices(d, w) ==
    {[w EXCEPT !.bedroom_type = b] : b \in bedroom_options(d)}
    \cup {[w EXCEPT !.selected_leans = Toggle(@, c)] : c \in ToggledLeans}
    \cup {[w EXCEPT !.selected_states = Toggle(@, st)] : st \in states(d)}
    \cup (IF "exotic_animal_rating" \in d.cols
          THEN {[w EXCEPT !.filter_primates = ~@], [w EXCEPT !.filter_big_cats = ~@],
                [w EXCEPT !.filter_reptiles = ~@]}
          ELSE {})

\* the user changes one widget and the script runs again on the cached table
Interact ==
    /\ app = "shown"
    /\ \E w \in Choices(df, widgets) \ {widgets} :
          /\ widgets' = w
          /\ Show(df, w)
    /\ UNCHANGED <<df, fsvars, runs, pc, err, locals>>

NextApp == OpenPage \/ Interact

\* the dashboard has not been opened
AppFresh == df = None /\ widgets = None /\ filtered_df = None /\ app = "start"

----------------------------------------------------------------------------
(* Initial states *)

\* the first run is about to start, nothing is assigned yet
Fresh ==
    /\ runs = 1
    /\ pc = "start"
    /\ err = ""
    /\ data_path = None
    /\ housing_general = None
    /\ housing_4br = None
    /\ housing_5br = None
    /\ housing_clean = None
    /\ elec_clean = None
    /\ gun_laws = None
    /\ population = None
    /\ exotic_animals = None
    /\ marijuana = None
    /\ merged = None
    /\ AppFresh

Layout(l) == srcDir = l.srcDir /\ dataDir = l.dataDir /\ outFile = l.outFile

Dims == Sources \cup {"layout"}

VariantsOf(d) == IF d = "layout" THEN LayoutVariants ELSE Variants[d]

Widest == CHOOSE n \in {Len(VariantsOf(d)) : d \in Dims} :
              \A d \in Dims : Len(VariantsOf(d)) <= n

\* the baseline with at most MaxDeviations of its files (or its layout) varied
Init ==
    /\ Fresh
    /\ \E D \in SUBSET Dims :
          /\ Cardinality(D) <= MaxDeviations
          /\ \E pick \in [D -> 1..Widest] :
                /\ \A d \in D : pick[d] <= Len(VariantsOf(d))
                /\ Layout(IF "layout" \in D THEN LayoutVariants[pick["layout"]]
                          ELSE BaseLayout)
                /\ files = [s \in Sources |->
                               IF s \in D THEN Variants[s][pick[s]] ELSE Baseline[s]]

Spec == Init /\ [][Next]_vars

\* the baseline layout and files, with one source file replaced
BaselineWith(s, tab) ==
    /\ Fresh
    /\ Layout(BaseLayout)
    /\ files = [Baseline EXCEPT ![s] = Ok(tab)]

(* Key derivation: an overall-housing file of two rows whose code cells are *)
(* any digit strings of at most StateWidth and CountyWidth characters, so   *)
(* both bare numbers ("6", "1") and fixed-width text ("06", "001").         *)

KeyDigits == {"0", "1"}

Cells(width) == UNION {[1..n -> KeyDigits] : n \in 1..width}

InitKey ==
    \E s1, s2 \in Cells(StateWidth), c1, c2 \in Cells(CountyWidth) :
        BaselineWith("housing",
            HousingTab(<<HousingRow(s1, c1, "Alameda County", "CA",
                                    <<Some(1190000), Some(1200000)>>),
                         HousingRow(s2, c2, "Kent County", "DE",
                                    <<Some(340000), Some(350000)>>)>>))

SpecKey == InitKey /\ [][Next]_vars

(* Election aggregation: the 2024 records of Alameda are any Democrat and   *)
(* Republican vote counts (or no record of that party), with or without a   *)
(* third-party record, filed under one spelling of the county name or two;  *)
(* Kent has a Republican record and, or not, a Democrat one.                *)

VoteCounts == {100 * v : v \in 0..MaxVotes}

Records(name, party, votes) ==
    IF votes = NA THEN {} ELSE {Vote(2024, "CA", name, 6001, party, votes[1])}

ElectionFamily(dem, rep, other, repName, kentDem) ==
    Records("ALAMEDA", "DEMOCRAT", dem)
    \cup Records(repName, "REPUBLICAN", rep)
    \cup Records("ALAMEDA", "OTHER", other)
    \cup {Vote(2020, "CA", "ALAMEDA", 6001, "REPUBLICAN", 700),
          Vote(2020, "DE", "KENT", 10001, "DEMOCRAT", 900),
          Vote(2024, "DE", "KENT", 10001, "REPUBLICAN", 600)}
    \cup (IF kentDem THEN {Vote(2024, "DE", "KENT", 10001, "DEMOCRAT", 400)} ELSE {})

OptionalVotes == {NA} \cup {Some(v) : v \in VoteCounts}

InitElec ==
    \E dem, rep \in OptionalVotes, other \in {NA, Some(100)},
       repName \in {"ALAMEDA", "Alameda"}, kentDem \in BOOLEAN :
        BaselineWith("elections",
                     ElectionTab(ElectionFamily(dem, rep, other, repName, kentDem)))

SpecElec == InitElec /\ [][Next]_vars

(* Categorisation: the merged table holds one row with any lean score in    *)
(* -MaxScore..MaxScore tenths or none, and any gun-law grade or none.       *)

Grades == {"A+", "A", "A-", "B+", "B", "B-", "C+", "C", "C-", "D+", "D", "D-",
           "F", "F-", "a", "E"}

MergedRow(score, grade) ==
    [county_fips |-> 6001, county_name |-> "Alameda County", state_name |-> "CA",
     state_code |-> "CA", median_home_value_all |-> Some(1200000),
     dem_pct |-> NA, rep_pct |-> NA, lean_score |-> score,
     gun_law_grade |-> grade, gun_death_rate |-> NA, population |-> Some(1600000)]

InitDerive ==
    /\ Layout(BaseLayout)
    /\ files = Baseline
    /\ runs = 1
    /\ pc = "derive"
    /\ err = ""
    /\ data_path = "data/"
    /\ housing_general = None
    /\ housing_4br = None
    /\ housing_5br = None
    /\ housing_clean = None
    /\ elec_clean = None
    /\ gun_laws = None
    /\ population = None
    /\ exotic_animals = None
    /\ marijuana = None
    /\ AppFresh
    /\ \E score \in {NA} \cup {Some(x) : x \in (0 - MaxScore)..MaxScore},
          grade \in {NA} \cup {Some(g) : g \in Grades} :
          merged = Frame(DOMAIN MergedRow(score, grade), <<MergedRow(score, grade)>>)

NextDerive == DeriveFields \/ Save

SpecDerive == InitDerive /\ [][NextDerive]_vars

(* Current value: one housing file has any header of at most MaxCols       *)
(* distinct value columns drawn from month columns of 2024 and of 1999, a   *)
(* non-date column whose name starts with '20', and a plain non-date one.   *)

Col1999_12 == <<"1", "9", "9", "9", "-", "1", "2", "-", "3", "1">>

Col20pct == <<"2", "0", "p", "c", "t", "_", "d", "o", "w", "n">>

ColSizeRank == <<"S", "i", "z", "e", "R", "a", "n", "k">>

ColumnNames == {Col1999_12, Col2024_11, Col2024_12, Col20pct, ColSizeRank}

Headers ==
    UNION {{h \in [1..n -> ColumnNames] : \A i, j \in 1..n : h[i] = h[j] => i = j} :
           n \in 1..MaxCols}

\* a housing file with that header; the cell under column i holds base + i
ColsTab(hdr) ==
    [cols |-> HousingCols, hdr |-> hdr,
     rows |-> <<HousingRow(<<"6">>, <<"1">>, "Alameda County", "CA",
                           [i \in DOMAIN hdr |-> Some(1200000 + i)]),
                HousingRow(<<"1", "0">>, <<"1">>, "Kent County", "DE",
                           [i \in DOMAIN hdr |-> Some(350000 + i)])>>]

InitCols ==
    \E hdr \in Headers, s \in HousingSources : BaselineWith(s, ColsTab(hdr))

SpecCols == InitCols /\ [][Next]_vars

(* Dashboard: the output file of an earlier run holds Alameda and Kent.    *)
(* Alameda's price, 4BR price and population are whole, fractional or      *)
(* missing, its marijuana status and exotic-animal rating present or       *)
(* missing; the bedroom, marijuana and exotic-animal columns are there or   *)
(* not; or there is no output file.                                         *)

BaseAppCols == {"county_fips", "county_name", "state_name", "median_home_value_all",
                "political_lean", "gun_law_strength", "population"}

BedroomAppCols == {"median_home_value_4br", "median_home_value_5br"}

MarijuanaAppCols == {"marijuana_status"}

ExoticAppCols == {"exotic_animal_rating", "allows_primates", "allows_big_cats",
                  "allows_reptiles"}

AlamedaOut(price, v4, pop, status, rating) ==
    [county_fips |-> 6001, county_name |-> "Alameda County", state_name |-> "CA",
     median_home_value_all |-> price, median_home_value_4br |-> v4,
     median_home_value_5br |-> NA,
     political_lean |-> "Strong Democrat", gun_law_strength |-> "Strong",
     population |-> pop, marijuana_status |-> status, exotic_animal_rating |-> rating,
     allows_primates |-> IF rating = NA THEN NA ELSE Some("No"),
     allows_big_cats |-> IF rating = NA THEN NA ELSE Some("No"),
     allows_reptiles |-> IF rating = NA THEN NA ELSE Some("Yes")]

KentOut(v5) ==
    [county_fips |-> 10001, county_name |-> "Kent County", state_name |-> "DE",
     median_home_value_all |-> Some(350000), median_home_value_4br |-> Some(450000),
     median_home_value_5br |-> v5,
     political_lean |-> "Unknown", gun_law_strength |-> "Moderate",
     population |-> Some(180000), marijuana_status |-> Some("Medical Only"),
     exotic_animal_rating |-> Some("Moderate"),
     allows_primates |-> Some("Limited"), allows_big_cats |-> Some("No"),
     allows_reptiles |-> Some("Yes")]

OutTable(cols, alameda, kent) == Frame(cols, <<Project(alameda, cols), Project(kent, cols)>>)

InitApp ==
    /\ Fresh
    /\ srcDir = "data/"
    /\ dataDir = TRUE
    /\ files = Baseline
    /\ \/ outFile = NA
       \/ \E price \in {Some(1200000), <<1200000, 5>>},
             v4 \in {NA, <<1500000, 5>>},
             pop \in {NA, Some(1600000), <<1600000, 5>>},
             status \in {NA, Some("Fully Legal")},
             rating \in {NA, Some("Strict")},
             v5 \in {NA, Some(560000)},
             optional \in SUBSET {BedroomAppCols, MarijuanaAppCols, ExoticAppCols} :
             outFile = Some(OutTable(BaseAppCols \cup UNION optional,
                                     AlamedaOut(price, v4, pop, status, rating),
                                     KentOut(v5)))

SpecApp == InitApp /\ [][NextApp]_vars

----------------------------------------------------------------------------
(* Properties *)

Abs(x) == IF x < 0 THEN 0 - x ELSE x

RequiredSources == {"housing", "elections", "gun_laws", "population"}

OptionalSources == {"h4", "h5", "exotic", "marijuana"}

\* the directory the current run reads from, or the next run will read from
PathInUse == IF pc = "start" THEN (IF dataDir THEN "data/" ELSE "") ELSE data_path

\* the columns prepare_data selects from each source
SelectedCols(s) ==
    CASE s = "housing" -> HousingCols
      [] s \in {"h4", "h5"} -> {"StateCodeFIPS", "MunicipalCodeFIPS"}
      [] s = "elections" -> ElectionCols \ {"mode"}
      [] s = "gun_laws" -> GunCols
      [] s = "population" -> PopulationCols
      [] s = "exotic" -> ExoticCols \cup {"state_code"}
      [] s = "marijuana" -> MarijuanaCols \cup {"state_code"}

\* the columns each optional source contributes to the output
OutputCols(s) ==
    CASE s = "h4" -> {"median_home_value_4br", "median_home_value_4br_formatted"}
      [] s = "h5" -> {"median_home_value_5br", "median_home_value_5br_formatted"}
      [] s = "exotic" -> ExoticCols
      [] s = "marijuana" -> MarijuanaCols

Unreadable(s) == FileAt(PathInUse, s).st # "ok"

\* readable, but without a column the code selects or (housing) a '20' column
Malformed(s) ==
    /\ ~Unreadable(s)
    /\ \/ ~(SelectedCols(s) \subseteq FileAt(PathInUse, s).tab.cols)
       \/ s \in HousingSources
          /\ \A i \in DOMAIN FileAt(PathInUse, s).tab.hdr :
                ~StartsWith(FileAt(PathInUse, s).tab.hdr[i], <<"2", "0">>)

\* the overall-housing rows that have a current home value
CurrentValue(r) == r.vals[LastDateCol(housing_general.hdr)]

AnchorRows == SelectSeq(housing_general.rows, LAMBDA r : CurrentValue(r) # NA)

KeyOf(r) == 1000 * r.StateCodeFIPS + r.MunicipalCodeFIPS

OutputRowsOf(k) == {i \in DOMAIN merged.rows : merged.rows[i].county_fips = k}

\* C1: every row of the output table has a non-missing median_home_value_all,
\* and dropping the rows whose median_home_value_all is missing leaves the
\* output (as returned and as written) unchanged.
C1_HomeValuePresent ==
    pc = "done" =>
        /\ \A i \in DOMAIN merged.rows : merged.rows[i].median_home_value_all # NA
        /\ SelectSeq(merged.rows, LAMBDA r : r.median_home_value_all # NA) = merged.rows
        /\ outFile = Some(merged)

\* a run completed whose overall-housing table had a row without a home value
C1_Witness ==
    /\ pc = "done"
    /\ Len(merged.rows) > 0
    /\ \E i \in DOMAIN housing_general.rows : CurrentValue(housing_general.rows[i]) = NA

\* C2: the output has exactly one row for every overall-housing row with a home
\* value, whatever the election, population, gun-law, exotic-animal and
\* marijuana tables hold (the housing files being the baseline's).
C2_OneRowPerCounty ==
    (/\ pc = "done"
     /\ \A s \in HousingSources : files[s] = Baseline[s])
    => \A i \in DOMAIN AnchorRows :
          Cardinality(OutputRowsOf(KeyOf(AnchorRows[i]))) = 1

\* C3: the county key of every housing row is the number whose five digits
\* are the state code padded to two digits and the county code padded to
\* three, so rows with different (state, county) codes get different keys.
C3_KeyIsPaddedConcatenation ==
    pc \in {"elections", "load_state", "merge", "derive", "save", "done"} =>
        /\ Len(housing_clean.rows) = Len(housing_general.rows)
        /\ \A i \in DOMAIN housing_general.rows :
              /\ housing_clean.rows[i].county_fips = KeyOf(housing_general.rows[i])
              /\ housing_clean.rows[i].county_fips < 100000
        /\ \A i, j \in DOMAIN housing_general.rows :
              (\/ housing_general.rows[i].StateCodeFIPS # housing_general.rows[j].StateCodeFIPS
               \/ housing_general.rows[i].MunicipalCodeFIPS
                    # housing_general.rows[j].MunicipalCodeFIPS)
              => housing_clean.rows[i].county_fips # housing_clean.rows[j].county_fips

\* state 1 county 1 supplied as fixed-width text, beside state 10 county 1
\* supplied as bare numbers
C3_Witness ==
    /\ pc = "done"
    /\ files.housing.tab.rows[1].StateCodeFIPS = <<"0", "1">>
    /\ files.housing.tab.rows[1].MunicipalCodeFIPS = <<"0", "0", "1">>
    /\ files.housing.tab.rows[2].StateCodeFIPS = <<"1", "0">>
    /\ files.housing.tab.rows[2].MunicipalCodeFIPS = <<"1">>
    /\ merged.rows[1].county_fips = 1001
    /\ merged.rows[2].county_fips = 10001

\* the category the thresholds give a lean score (in tenths)
LeanCategory(score) ==
    CASE score = NA -> "Unknown"
      [] score # NA /\ score[1] > 200 -> "Strong Democrat"
      [] score # NA /\ 50 < score[1] /\ score[1] <= 200 -> "Lean Democrat"
      [] score # NA /\ -50 < score[1] /\ score[1] <= 50 -> "Swing"
      [] score # NA /\ -200 < score[1] /\ score[1] <= -50 -> "Lean Republican"
      [] score # NA /\ score[1] <= -200 -> "Strong Republican"

\* C4: political_lean of every output row is the category of its lean_score:
\* > 20 Strong Democrat, (5, 20] Lean Democrat, (-5, 5] Swing, (-20, -5] Lean
\* Republican, <= -20 Strong Republican, missing Unknown.
C4_LeanThresholds ==
    pc \in {"save", "done"} =>
        \A i \in DOMAIN merged.rows :
            merged.rows[i].political_lean = LeanCategory(merged.rows[i].lean_score)

\* a row whose score is exactly 20.0 was categorised Lean Democrat
C4_Witness ==
    /\ pc = "done"
    /\ merged.rows[1].lean_score = Some(200)
    /\ merged.rows[1].political_lean = "Lean Democrat"

\* the target-year election records of county k, and its votes for a party
CountyRecords(k) ==
    {r \in files.elections.tab.rows : r.year = 2024 /\ r.county_fips = k}

CountyVotes(k, party) ==
    SumSet({r \in CountyRecords(k) : r.party = party}, "candidatevotes")

\* pct (in tenths) is num/den as a percentage rounded to one decimal
IsRoundedShare(pct, num, den) ==
    pct # NA /\ 2 * Abs(pct[1] * den - 1000 * num) <= den

\* C5: in every output row of a county with target-year records and a positive
\* Democrat+Republican total, dem_pct and rep_pct are the county's summed
\* votes of that party over that total, as a percentage rounded to one
\* decimal, and lean_score is dem_pct - rep_pct.
C5_TwoPartyShare ==
    pc = "done" =>
        \A i \in DOMAIN merged.rows :
            LET r == merged.rows[i]
                dem == CountyVotes(r.county_fips, "DEMOCRAT")
                rep == CountyVotes(r.county_fips, "REPUBLICAN")
            IN (CountyRecords(r.county_fips) # {} /\ dem + rep > 0) =>
                  /\ IsRoundedShare(r.dem_pct, dem, dem + rep)
                  /\ IsRoundedShare(r.rep_pct, rep, dem + rep)
                  /\ r.lean_score = Some(r.dem_pct[1] - r.rep_pct[1])

\* C6: a county with a target-year record and zero Democrat+Republican votes
\* does not fail the run; its output rows have no lean_score and
\* political_lean Unknown.
C6_ZeroTwoPartyVotes ==
    /\ pc # "failed"
    /\ pc = "done" =>
          \A i \in DOMAIN merged.rows :
              LET r == merged.rows[i]
              IN (/\ CountyRecords(r.county_fips) # {}
                  /\ CountyVotes(r.county_fips, "DEMOCRAT") = 0
                  /\ CountyVotes(r.county_fips, "REPUBLICAN") = 0)
                 => r.lean_score = NA /\ r.political_lean = "Unknown"

\* a run completed for a county whose only target-year record is a third party's
C6_Witness ==
    /\ pc = "done"
    /\ CountyRecords(6001) = {Vote(2024, "CA", "ALAMEDA", 6001, "OTHER", 100)}
    /\ merged.rows[1].county_fips = 6001
    /\ merged.rows[1].political_lean = "Unknown"

\* the strength category of a non-missing grade, by grade-set membership
GradeStrength(g) ==
    CASE g \in {"A+", "A", "A-"} -> "Strong"
      [] g \in {"B+", "B", "B-"} -> "Moderate"
      [] g \in {"C+", "C", "C-"} -> "Weak"
      [] g \in {"D+", "D", "D-"} -> "Very Weak"
      [] OTHER -> "Minimal"

\* C7 as stated: gun_law_strength follows the grade sets, and every other
\* grade, a missing grade included, gives Minimal.
C7_MissingGradeIsMinimal ==
    pc \in {"save", "done"} =>
        \A i \in DOMAIN merged.rows :
            merged.rows[i].gun_law_strength =
                IF merged.rows[i].gun_law_grade = NA THEN "Minimal"
                ELSE GradeStrength(merged.rows[i].gun_law_grade[1])

\* C7 as amended: gun_law_strength follows the grade sets, every other
\* non-missing grade gives Minimal, and a missing grade gives Unknown.
C7_GunLawStrength ==
    pc \in {"save", "done"} =>
        \A i \in DOMAIN merged.rows :
            merged.rows[i].gun_law_strength =
                IF merged.rows[i].gun_law_grade = NA THEN "Unknown"
                ELSE GradeStrength(merged.rows[i].gun_law_grade[1])

\* a row without a grade was categorised
C7_Witness ==
    /\ pc = "done"
    /\ merged.rows[1].gun_law_grade = NA
    /\ merged.rows[1].gun_law_strength = "Unknown"

\* some source other than s stops the run: a required one that cannot be
\* read, or one that is read and lacks what the code selects from it
OtherFailure(s) ==
    \E t \in Sources \ {s} :
        Malformed(t) \/ (t \in RequiredSources /\ Unreadable(t))

\* C8: when an optional source is absent or unreadable, the run still
\* completes (unless another source stops it), the output has none of that
\* source's columns, and it has as many rows as the overall-housing table has
\* rows with a home value.
C8_OptionalSourceAbsent ==
    \A s \in OptionalSources :
        (pc \in {"done", "failed"} /\ Unreadable(s)) =>
            /\ pc = "failed" => OtherFailure(s)
            /\ pc = "done" => /\ merged.cols \cap OutputCols(s) = {}
                              /\ Len(merged.rows) = Len(AnchorRows)

\* a required source is unreadable or malformed for the run in progress (or
\* about to start)
BadRequired == \E s \in RequiredSources : Unreadable(s) \/ Malformed(s)

\* C9: while a required source is unreadable or malformed, no step of
\* prepare_data writes or changes the output file or gets past the merge, and a
\* step that ends the run ends it with an error.
C9_RequiredFailureAborts ==
    [][BadRequired =>
          /\ outFile' = outFile
          /\ pc' \notin {"derive", "save", "done"}
          /\ pc' = "failed" => err' \in {"FileNotFoundError", "ParserError",
                                         "KeyError", "IndexError"}]_vars

\* a run aborted on a required source and an output file is still there
C9_Witness ==
    /\ pc = "failed"
    /\ BadRequired
    /\ outFile # NA

\* the rows of a frame (or of an election record set) with key column = k
Matches(rows, col, k) == {i \in DOMAIN rows : rows[i][col] = k}

AllMissing(r, cs) == \A c \in cs : r[c] = NA

\* C10: every overall-housing row with a home value is in the output, whether
\* or not the other sources have a row for its county or state; the fields of
\* a source without such a row are missing in its output rows; and a run
\* whose sources are all readable and well-formed raises no error.
C10_AnchorRowsPreserved ==
    /\ pc = "failed" => \E s \in Sources :
                            Malformed(s) \/ (s \in RequiredSources /\ Unreadable(s))
    /\ pc = "done" =>
          \A i \in DOMAIN AnchorRows :
              LET a == AnchorRows[i]
                  k == KeyOf(a)
              IN /\ \E j \in OutputRowsOf(k) :
                        /\ merged.rows[j].median_home_value_all = CurrentValue(a)
                        /\ merged.rows[j].county_name = a.RegionName
                        /\ merged.rows[j].state_code = a.State
                 /\ \A j \in OutputRowsOf(k) :
                        LET r == merged.rows[j]
                        IN /\ CountyRecords(k) = {} =>
                                 AllMissing(r, {"dem_pct", "rep_pct", "lean_score"})
                           /\ Matches(population.rows, "county_fips", k) = {} =>
                                 r.population = NA
                           /\ Matches(gun_laws.rows, "state_code", a.State) = {} =>
                                 AllMissing(r, {"gun_law_grade", "gun_death_rate"})
                           /\ (/\ exotic_animals # None
                               /\ Matches(exotic_animals.rows, "state_code", a.State) = {})
                              => AllMissing(r, ExoticCols)
                           /\ (/\ marijuana # None
                               /\ Matches(marijuana.rows, "state_code", a.State) = {})
                              => AllMissing(r, MarijuanaCols)
                           /\ (/\ housing_4br # None
                               /\ \A n \in DOMAIN housing_4br.rows :
                                     KeyOf(housing_4br.rows[n]) # k)
                              => r.median_home_value_4br = NA
                           /\ (/\ housing_5br # None
                               /\ \A n \in DOMAIN housing_5br.rows :
                                     KeyOf(housing_5br.rows[n]) # k)
                              => r.median_home_value_5br = NA

\* a run completed in which Alameda has no election, population, gun-law or
\* 4BR row at all
C10_Witness ==
    /\ pc = "done"
    /\ \E j \in OutputRowsOf(6001) :
          \/ merged.rows[j].lean_score = NA /\ merged.rows[j].population = NA
          \/ merged.rows[j].lean_score = NA /\ merged.rows[j].gun_law_grade = NA
          \/ merged.rows[j].population = NA /\ merged.rows[j].gun_law_grade = NA

----------------------------------------------------------------------------
(* Current value of a housing table *)

\* the name begins with four digits
YearPrefixed(name) ==
    Len(name) >= 4 /\ \A i \in 1..4 : name[i] \in Range(DigitChars)

YearCols(hdr) == {i \in DOMAIN hdr : YearPrefixed(hdr[i])}

LastYearCol(hdr) == CHOOSE i \in YearCols(hdr) : \A j \in YearCols(hdr) : j <= i

ValueCols == {"median_home_value_all", "median_home_value_4br", "median_home_value_5br"}

\* the housing frame whose current value becomes the output column col
HousingFrame(col) ==
    IF col = "median_home_value_all" THEN housing_general
    ELSE IF col = "median_home_value_4br" THEN housing_4br
    ELSE housing_5br

\* C11: for each housing table that was read, the current home value of a
\* row is the cell under the last column, in header order, whose name begins
\* with a 4-digit year; and the run does not stop for want of a date column
\* when every table read has such a column.
C11_LastYearColumn ==
    /\ (pc = "failed" /\ err = "IndexError") =>
           \E col \in ValueCols :
               HousingFrame(col) # None /\ YearCols(HousingFrame(col).hdr) = {}
    /\ housing_clean # None =>
           \A col \in ValueCols :
               (HousingFrame(col) # None /\ YearCols(HousingFrame(col).hdr) # {}) =>
                   \A i \in DOMAIN HousingFrame(col).rows, j \in DOMAIN housing_clean.rows :
                       housing_clean.rows[j].county_fips = county_fips(HousingFrame(col).rows[i])
                       => housing_clean.rows[j][col] =
                              HousingFrame(col).rows[i].vals[LastYearCol(HousingFrame(col).hdr)]

----------------------------------------------------------------------------
(* Running the pipeline again *)

\* the data_path a run started on the present file system takes (lines 13-16)
NextDataPath == IF dataDir THEN "data/" ELSE ""

\* C12: when a run of prepare_data has succeeded, a run started on the file
\* system it leaves behind reads every source file from where the finished
\* run read it: creating data/ and writing the output file change no input.
C12_RerunReadsSameInputs ==
    pc = "done" => \A s \in Sources : FileAt(NextDataPath, s) = FileAt(data_path, s)

----------------------------------------------------------------------------
(* The dashboard with every filter at its default *)

AllDefault ==
    /\ widgets.selected_leans = lean_categories
    /\ widgets.selected_states = {}
    /\ ~widgets.filter_primates /\ ~widgets.filter_big_cats /\ ~widgets.filter_reptiles

\* C13: when the dashboard shows a table and no filter has been moved from
\* its default, the table shown holds exactly the loaded counties that have
\* a price for the selected bedroom type.
C13_DefaultsKeepEveryCounty ==
    (app = "shown" /\ AllDefault) =>
        filtered_df.rows = df_filtered_bedrooms(df, widgets.bedroom_type).rows

====
